---------------------------- MODULE Spec2Model ----------------------------
(***************************************************************************)
(* A model of dashboard.py: the start-up script of a static dashboard.     *)
(* The script loads five CSV files, builds three figures, composes one     *)
(* layout holding the figures and two data tables, and runs the server.    *)
(*                                                                         *)
(* Numbers with decimals are fixed-point integers: percentages are in      *)
(* hundredths of a percent (45.0 % is 4500), the scatter ratios and the    *)
(* reference lines are in tenths (48.5 is 485), the pull and the hole of   *)
(* the donut are in hundredths (0.05 is 5).  Text that is formatted from a *)
(* number is a sequence of one-character strings.                          *)
(***************************************************************************)
EXTENDS Integers, Sequences, FiniteSets, TLC

VARIABLES
    status,        \* file name -> "ok" | "absent" | "unparseable" (the working directory)
    content,       \* what each file parses to when it is "ok" (the working directory)
    pc,            \* the statement the script is at
    bound,         \* the module globals assigned so far
    df_bar, df_structural_top10, df_resource_top10, df_scatter, df_donut,
    fig_bar_chart, fig_scatter, fig_donut,
    layout,        \* app.layout
    stdout,        \* the lines printed so far
    exit_code,     \* <<n>> once the process has exited with status n, << >> while it runs
    traceback,     \* the exception that ended the process unhandled, or "none"
    inflight,      \* the clients whose request the server has accepted
    response,      \* client -> the documents it was served, oldest first
    served         \* the number of requests answered

vars == <<status, content, pc, bound, df_bar, df_structural_top10,
          df_resource_top10, df_scatter, df_donut, fig_bar_chart, fig_scatter,
          fig_donut, layout, stdout, exit_code, traceback, inflight, response,
          served>>

-----------------------------------------------------------------------------
(* Bounds of the model.                                                    *)

MaxBarRows == 2
MaxScatterRows == 2
MaxDonutRows == 3
MaxTableRows == 2
MaxRequests == 2

-----------------------------------------------------------------------------
(* Small helpers.                                                          *)

Range(s) == {s[i] : i \in 1..Len(s)}

RECURSIVE SumSeq(_)
SumSeq(s) == IF s = <<>> THEN 0 ELSE Head(s) + SumSeq(Tail(s))

RECURSIVE Concat(_)
Concat(ss) == IF ss = <<>> THEN <<>> ELSE Head(ss) \o Concat(Tail(ss))

\* the sequences over S of length 0..n
SeqUpTo(S, n) == UNION {[1..k -> S] : k \in 0..n}

\* the values of s in the order each first appears (pandas groupby(sort=False))
RECURSIVE UniqueInOrder(_)
UniqueInOrder(s) ==
    IF s = <<>> THEN <<>>
    ELSE LET init == UniqueInOrder(SubSeq(s, 1, Len(s) - 1))
             last == s[Len(s)]
         IN  IF last \in Range(init) THEN init ELSE Append(init, last)

-----------------------------------------------------------------------------
(* The five input files, in the order the script reads them.               *)

Files == << "viz_data_bar_chart.csv",
            "viz_data_structural_top10.csv",
            "viz_data_resource_top10.csv",
            "viz_data_scatter.csv",
            "viz_data_donut.csv" >>

\* the global each file is read into
Target == << "df_bar", "df_structural_top10", "df_resource_top10",
             "df_scatter", "df_donut" >>

-----------------------------------------------------------------------------
(* Figure 1: the bar chart (px.bar, update_traces, update_layout).         *)

Mapped == { "1. Structural Failure", "2. Resource Failure",
            "3. Unexplained \"Chaos\"", "4. General Infrastructure" }

\* color_discrete_map
color_discrete_map ==
    [c \in Mapped |->
        CASE c = "1. Structural Failure"     -> "#1f77b4"
          [] c = "2. Resource Failure"       -> "#ff7f0e"
          [] c = "3. Unexplained \"Chaos\""  -> "#7f7f7f"
          [] c = "4. General Infrastructure" -> "#d62728"]

\* px.bar is given no color_discrete_sequence: plotly's default qualitative one
color_discrete_sequence ==
    << "#636EFA", "#EF553B", "#00CC96", "#AB63FA", "#FFA15A",
       "#19D3F3", "#FF6692", "#B6E880", "#FF97FF", "#FECB52" >>

\* TraceColor falling back to the map's first colour
TraceColorReuse(groups, k) ==
    IF groups[k] \in DOMAIN color_discrete_map
    THEN color_discrete_map[groups[k]]
    ELSE color_discrete_map["1. Structural Failure"]

\* The colour px gives the k-th group: the map's colour when the group's value
\* is a key of the map; otherwise the value is added to the map with the
\* sequence's entry at (size of the map so far) modulo (length of the sequence).
TraceColor(groups, k) ==
    IF groups[k] \in DOMAIN color_discrete_map
    THEN color_discrete_map[groups[k]]
    ELSE LET added == Cardinality({j \in 1..(k - 1) :
                                      groups[j] \notin DOMAIN color_discrete_map})
             size  == Cardinality(DOMAIN color_discrete_map) + added
         IN  color_discrete_sequence[(size % Len(color_discrete_sequence)) + 1]

\* the order of the traces: one per distinct value of the color column
TraceOrder(df) == UniqueInOrder([i \in 1..Len(df) |-> df[i].Problem])

\* px.bar(df_bar, x='Problem', y='Importance (%)', text='Importance (%)',
\*        color='Problem', color_discrete_map={...}): one trace per distinct
\* value of 'Problem', holding that value's rows in row order
PxBar(df) ==
    LET groups == TraceOrder(df)
    IN  [ data |->
            [k \in 1..Len(groups) |->
               LET rows == SelectSeq(df, LAMBDA r : r.Problem = groups[k])
               IN  [ name         |-> groups[k],
                     x            |-> [i \in 1..Len(rows) |-> rows[i].Problem],
                     y            |-> [i \in 1..Len(rows) |-> rows[i].Importance],
                     text         |-> [i \in 1..Len(rows) |-> rows[i].Importance],
                     marker_color |-> TraceColor(groups, k),
                     texttemplate |-> "",
                     textposition |-> "auto" ]],
          title       |-> "Figure 1: Root Drivers of the G8-to-G9 Bottleneck",
          yaxis_title |-> "Importance (%)",
          showlegend  |-> TRUE ]

\* the whole of the bar chart's construction
BuildBarChart(df) ==
    LET fig == PxBar(df)
    IN  [ fig EXCEPT
            !.data = [k \in 1..Len(fig.data) |->
                        [fig.data[k] EXCEPT !.texttemplate = "%{y:.1f}%",
                                            !.textposition = "outside"]],
            !.yaxis_title = "Problem Importance (out of 100%)",
            !.showlegend  = FALSE ]

DigitChars == << "0", "1", "2", "3", "4", "5", "6", "7", "8", "9" >>

\* the decimal digits of a natural number
RECURSIVE IntDigits(_)
IntDigits(n) ==
    IF n < 10 THEN << DigitChars[n + 1] >>
    ELSE Append(IntDigits(n \div 10), DigitChars[(n % 10) + 1])

\* FormatFixed1 cutting the second decimal off instead of rounding
FormatFixed1Truncating(h) ==
    LET tenths == h \div 10
    IN  IntDigits(tenths \div 10) \o << ".", DigitChars[(tenths % 10) + 1] >>

\* d3-format ".1f" of a value of h hundredths: the nearest number of tenths,
\* the larger one on a tie, written with one digit after the point
FormatFixed1(h) ==
    LET tenths == (h + 5) \div 10
    IN  IntDigits(tenths \div 10) \o << ".", DigitChars[(tenths % 10) + 1] >>

\* the text a trace's texttemplate renders for the value y
RenderText(template, y, text) ==
    IF template = "%{y:.1f}%" THEN FormatFixed1(y) \o << "%" >>
    ELSE IntDigits(text)

\* the bars the figure draws, trace after trace
Bars(fig) ==
    Concat([k \in 1..Len(fig.data) |->
              LET t == fig.data[k]
              IN  [i \in 1..Len(t.x) |->
                     [ x      |-> t.x[i],
                       height |-> t.y[i],
                       label  |-> RenderText(t.texttemplate, t.y[i], t.text[i]),
                       color  |-> t.marker_color ]]])

-----------------------------------------------------------------------------
(* Figure 2: the scatter plot (px.scatter, add_vline, add_hline).          *)

\* ZoneLabel with the dictionary's key 0 left out
ZoneLabelNoZero(flag) ==
    CASE flag = 1 -> "Red Zone (194k Schools)"
      [] OTHER    -> "NaN"

\* df_scatter['is_red_zone_2024'].map({1: ..., 0: ...}); a value that is not a
\* key of the dictionary maps to NaN
ZoneLabel(flag) ==
    CASE flag = 1 -> "Red Zone (194k Schools)"
      [] flag = 0 -> "OK (1.2M Schools)"
      [] OTHER    -> "NaN"

\* x of add_vline and y of add_hline, in tenths
VLineX == 485
HLineY == 570

\* px.scatter(df_scatter, x='ptr_2024', y='sqcr_2024', color=<the mapped
\* column>): one trace per distinct label, in the order the labels first appear,
\* holding that label's rows in row order
PxScatter(df) ==
    LET labels == [i \in 1..Len(df) |-> ZoneLabel(df[i].is_red_zone_2024)]
        groups == UniqueInOrder(labels)
    IN  [ data |->
            [k \in 1..Len(groups) |->
               LET idx == SelectSeq([i \in 1..Len(df) |-> i],
                                    LAMBDA i : labels[i] = groups[k])
               IN  [ name         |-> groups[k],
                     x            |-> [n \in 1..Len(idx) |-> df[idx[n]].ptr_2024],
                     y            |-> [n \in 1..Len(idx) |-> df[idx[n]].sqcr_2024],
                     marker_color |-> color_discrete_sequence[
                                         ((k - 1) % Len(color_discrete_sequence)) + 1] ]],
          title  |-> "Figure 2: Identifying \"Red Zone\" Schools (100k Sample)",
          shapes |-> << >> ]

\* the whole of the scatter plot's construction
BuildScatter(df) ==
    LET fig   == PxScatter(df)
        vline == [ type |-> "vline", at |-> VLineX, line_dash |-> "dash",
                   line_color |-> "red", annotation_text |-> "PTR = 48.5" ]
        hline == [ type |-> "hline", at |-> HLineY, line_dash |-> "dash",
                   line_color |-> "red", annotation_text |-> "SQCR = 57.0" ]
    IN  [ fig EXCEPT !.shapes = Append(Append(fig.shapes, vline), hline) ]

\* the points the figure draws, trace after trace, each with its trace's name
Points(fig) ==
    Concat([k \in 1..Len(fig.data) |->
              LET t == fig.data[k]
              IN  [i \in 1..Len(t.x) |->
                     [ x |-> t.x[i], y |-> t.y[i], class |-> t.name ]]])

-----------------------------------------------------------------------------
(* Figure 3: the donut chart (px.pie, update_traces).                      *)

\* hole=0.4 and pull=[0.05, 0], in hundredths
Hole == 40
PullFirst == 5
PullSecond == 0

\* px.pie(df_donut, names='Failure Type', values='Count', hole=0.4): one trace
\* whose labels and values are the two columns, in row order
PxPie(df) ==
    [ labels   |-> [i \in 1..Len(df) |-> df[i].FailureType],
      values   |-> [i \in 1..Len(df) |-> df[i].Count],
      hole     |-> Hole,
      textinfo |-> "percent",
      pull     |-> << >>,
      title    |-> "Figure 3: 79% of \"Red Zone\" Schools are CHRONIC Failures" ]

\* BuildDonut pulling every wedge out
BuildDonutPullAll(df) ==
    [ PxPie(df) EXCEPT !.textinfo = "percent+label",
                       !.pull     = [i \in 1..Len(df) |-> PullFirst] ]

\* the whole of the donut chart's construction
BuildDonut(df) ==
    [ PxPie(df) EXCEPT !.textinfo = "percent+label",
                       !.pull     = << PullFirst, PullSecond >> ]

\* The wedges the figure draws, one per entry of the trace.  A wedge's share is
\* its value over the sum of the values; its offset is the entry of pull at its
\* index, 0 where pull has no such entry.
Wedges(fig) ==
    [i \in 1..Len(fig.labels) |->
       [ label |-> fig.labels[i],
         share |-> [ num |-> fig.values[i], den |-> SumSeq(fig.values) ],
         pull  |-> IF i <= Len(fig.pull) THEN fig.pull[i] ELSE 0 ]]

-----------------------------------------------------------------------------
(* The two data tables (dash_table.DataTable).                             *)
(* A table is [columns: the column names in order, rows: the rows in       *)
(* order, each the sequence of its cells in column order].                 *)

\* the position of column c
ColumnIndex(df, c) == CHOOSE j \in 1..Len(df.columns) : df.columns[j] = c

\* ToDictRecords with the rows in reverse order
ToDictRecordsReversed(df) ==
    [i \in 1..Len(df.rows) |->
       [c \in Range(df.columns) |->
          df.rows[Len(df.rows) + 1 - i][ColumnIndex(df, c)]]]

\* df.to_dict('records'): one dictionary per row, column name -> cell
ToDictRecords(df) ==
    [i \in 1..Len(df.rows) |->
       [c \in Range(df.columns) |-> df.rows[i][ColumnIndex(df, c)]]]

\* [{'name': i, 'id': i} for i in df.columns]
ColumnDefs(df) ==
    [j \in 1..Len(df.columns) |-> [ name |-> df.columns[j], id |-> df.columns[j] ]]

\* dash_table.DataTable(data=..., columns=..., style_...)
DataTable(df) ==
    [ data       |-> ToDictRecords(df),
      columns    |-> ColumnDefs(df),
      style_cell |-> "textAlign: left",
      style_data_conditional |-> "numeric: bold" ]

\* the headers of the grid, left to right
GridHeaders(t) == [j \in 1..Len(t.columns) |-> t.columns[j].name]

\* the cells of the grid, row by row, each row left to right
GridCells(t) ==
    [i \in 1..Len(t.data) |->
       [j \in 1..Len(t.columns) |-> t.data[i][t.columns[j].id]]]

-----------------------------------------------------------------------------
(* The layout (html.Div of the slides, in their fixed order).              *)

ComposeLayout(bar, structural, scatter, donut, resource) ==
    << [ slide |-> "executive summary" ],
       [ slide |-> "drivers",        graph |-> bar ],
       [ slide |-> "structural fix", table |-> DataTable(structural) ],
       [ slide |-> "resource fix",   left |-> scatter, right |-> donut,
         table |-> DataTable(resource) ],
       [ slide |-> "footer" ] >>

-----------------------------------------------------------------------------
(* The working directory the script is started in.                         *)

Labels == Mapped \cup { "5. Other" }
BarValues == { 5, 3445, 9996 }

\* the entries of a sequence are pairwise distinct
Distinct(s) == \A i, j \in 1..Len(s) : s[i] = s[j] => i = j

BarRows == [ Problem : Labels, Importance : BarValues ]
BarTables ==
    { t \in SeqUpTo(BarRows, MaxBarRows) : Distinct([i \in 1..Len(t) |-> t[i].Problem]) }

ScatterRows ==
    [ ptr_2024 : { 480, 500 }, sqcr_2024 : { 570, 600 },
      is_red_zone_2024 : { 0, 1 } ]
ScatterTables == SeqUpTo(ScatterRows, MaxScatterRows)

DonutRows ==
    [ FailureType : { "Chronic", "Temporary", "New", "Seasonal" },
      Count : { 1, 79 } ]
DonutTables ==
    { t \in SeqUpTo(DonutRows, MaxDonutRows) :
        Distinct([i \in 1..Len(t) |-> t[i].FailureType]) }

ColumnNames == { "District", "Schools" }
CellValues == { "a", "b" }
\* pandas gives the columns of a table pairwise distinct names
ColumnLists ==
    { c \in SeqUpTo(ColumnNames, Cardinality(ColumnNames)) :
        Len(c) >= 1 /\ Distinct(c) }
TopTables ==
    UNION { { [ columns |-> cols, rows |-> rows ] :
                rows \in SeqUpTo([1..Len(cols) -> CellValues], MaxTableRows) } :
            cols \in ColumnLists }

ExampleBar ==
    << [ Problem |-> "1. Structural Failure",     Importance |-> 4500 ],
       [ Problem |-> "2. Resource Failure",       Importance |-> 3440 ],
       [ Problem |-> "3. Unexplained \"Chaos\"",  Importance |-> 1200 ],
       [ Problem |-> "4. General Infrastructure", Importance |-> 860 ] >>

ExampleScatter ==
    << [ ptr_2024 |-> 500, sqcr_2024 |-> 600, is_red_zone_2024 |-> 1 ],
       [ ptr_2024 |-> 300, sqcr_2024 |-> 400, is_red_zone_2024 |-> 0 ] >>

ExampleDonut ==
    << [ FailureType |-> "Chronic",   Count |-> 79 ],
       [ FailureType |-> "Temporary", Count |-> 21 ] >>

ExampleTop ==
    [ columns |-> << "District", "Schools" >>,
      rows    |-> << << "a", "b" >>, << "b", "a" >> >> ]

ExampleContent ==
    [ bar |-> ExampleBar, structural |-> ExampleTop, resource |-> ExampleTop,
      scatter |-> ExampleScatter, donut |-> ExampleDonut ]

AllOk == [f \in Range(Files) |-> "ok"]

\* The directories the script is started in: any of the five files may be
\* absent or unparseable beside the example tables; with every file readable,
\* each table in turn ranges over its bounded set.
Directories ==
    { [ status |-> st, content |-> ExampleContent ] :
        st \in [Range(Files) -> { "ok", "absent", "unparseable" }] }
    \cup { [ status |-> AllOk, content |-> [ExampleContent EXCEPT !.bar = t] ] :
             t \in BarTables }
    \cup { [ status |-> AllOk, content |-> [ExampleContent EXCEPT !.scatter = t] ] :
             t \in ScatterTables }
    \cup { [ status |-> AllOk, content |-> [ExampleContent EXCEPT !.donut = t] ] :
             t \in DonutTables }
    \cup { [ status |-> AllOk, content |-> [ExampleContent EXCEPT !.structural = t] ] :
             t \in TopTables }
    \cup { [ status |-> AllOk, content |-> [ExampleContent EXCEPT !.resource = t] ] :
             t \in TopTables }

-----------------------------------------------------------------------------
(* The script.                                                             *)

Clients == { "c1", "c2" }

\* the statements of the script, in order
Program == << "read_bar", "read_structural", "read_resource", "read_scatter",
              "read_donut", "fig_bar_chart", "fig_scatter", "fig_donut",
              "layout", "main", "serving" >>

\* the statement after statement p
After(p) == Program[(CHOOSE k \in 1..Len(Program) : Program[k] = p) + 1]

Unbound == << >>

Init ==
    /\ \E d \in Directories : status = d.status /\ content = d.content
    /\ pc = Program[1]
    /\ bound = {}
    /\ df_bar = Unbound /\ df_structural_top10 = Unbound
    /\ df_resource_top10 = Unbound /\ df_scatter = Unbound /\ df_donut = Unbound
    /\ fig_bar_chart = Unbound /\ fig_scatter = Unbound /\ fig_donut = Unbound
    /\ layout = Unbound
    /\ stdout = << >>
    /\ exit_code = << >>
    /\ traceback = "none"
    /\ inflight = {}
    /\ response = [c \in Clients |-> << >>]
    /\ served = 0

io == <<stdout, exit_code, traceback>>
dfs == <<df_bar, df_structural_top10, df_resource_top10, df_scatter, df_donut>>
figs == <<fig_bar_chart, fig_scatter, fig_donut>>
net == <<inflight, response, served>>
disk == <<status, content>>

\* pd.read_csv(Files[i]) returns: the statement at p assigns the table
Reads(p, i) ==
    /\ pc = p
    /\ status[Files[i]] = "ok"
    /\ bound' = bound \cup { Target[i] }
    /\ pc' = After(p)
    /\ UNCHANGED <<disk, figs, layout, io, net>>

ReadBar ==
    /\ Reads("read_bar", 1)
    /\ df_bar' = content.bar
    /\ UNCHANGED <<df_structural_top10, df_resource_top10, df_scatter, df_donut>>

ReadStructural ==
    /\ Reads("read_structural", 2)
    /\ df_structural_top10' = content.structural
    /\ UNCHANGED <<df_bar, df_resource_top10, df_scatter, df_donut>>

ReadResource ==
    /\ Reads("read_resource", 3)
    /\ df_resource_top10' = content.resource
    /\ UNCHANGED <<df_bar, df_structural_top10, df_scatter, df_donut>>

ReadScatter ==
    /\ Reads("read_scatter", 4)
    /\ df_scatter' = content.scatter
    /\ UNCHANGED <<df_bar, df_structural_top10, df_resource_top10, df_donut>>

ReadDonut ==
    /\ Reads("read_donut", 5)
    /\ df_donut' = content.donut
    /\ UNCHANGED <<df_bar, df_structural_top10, df_resource_top10, df_scatter>>

\* NotFoundText without the file's name
NotFoundTextGeneric(f) == << "[Errno 2] No such file or directory" >>

\* str(e) of the FileNotFoundError pd.read_csv raises for file f
NotFoundText(f) == << "[Errno 2] No such file or directory: ", f >>

\* the three lines the handler prints
Diagnostic(f) ==
    << << "--- ERROR: A data snippet is missing! ---" >>,
       << "Did you run the 'FINAL PREP' cell (Cell 23) first?" >>,
       << "Missing file: " >> \o NotFoundText(f) >>

\* the status of exit() called with no argument
ExitStatus == 0

\* the status of an interpreter ended by an unhandled exception
UnhandledStatus == 1

\* FileNotFound with the handler's exit() left out: execution falls through
FileNotFoundNoExit ==
    \E i \in 1..Len(Files) :
        /\ pc = Program[i]
        /\ status[Files[i]] = "absent"
        /\ stdout' = stdout \o Diagnostic(Files[i])
        /\ pc' = "fig_bar_chart"
        /\ UNCHANGED <<disk, bound, dfs, figs, layout, exit_code, traceback, net>>

\* pd.read_csv raises FileNotFoundError: the handler prints and calls exit()
FileNotFound ==
    \E i \in 1..Len(Files) :
        /\ pc = Program[i]
        /\ status[Files[i]] = "absent"
        /\ stdout' = stdout \o Diagnostic(Files[i])
        /\ exit_code' = << ExitStatus >>
        /\ pc' = "exited"
        /\ UNCHANGED <<disk, bound, dfs, figs, layout, traceback, net>>

\* ParseFailure with the handler catching every exception
ParseFailureHandled ==
    \E i \in 1..Len(Files) :
        /\ pc = Program[i]
        /\ status[Files[i]] = "unparseable"
        /\ stdout' = stdout \o Diagnostic(Files[i])
        /\ exit_code' = << ExitStatus >>
        /\ pc' = "exited"
        /\ UNCHANGED <<disk, bound, dfs, figs, layout, traceback, net>>

\* pd.read_csv raises a parser error: except FileNotFoundError does not catch
\* it, so the interpreter prints the traceback to stderr and ends
ParseFailure ==
    \E i \in 1..Len(Files) :
        /\ pc = Program[i]
        /\ status[Files[i]] = "unparseable"
        /\ traceback' = "ParserError"
        /\ exit_code' = << UnhandledStatus >>
        /\ pc' = "exited"
        /\ UNCHANGED <<disk, bound, dfs, figs, layout, stdout, net>>

FigBarChart ==
    /\ pc = "fig_bar_chart"
    /\ fig_bar_chart' = BuildBarChart(df_bar)
    /\ bound' = bound \cup { "fig_bar_chart" }
    /\ pc' = After(pc)
    /\ UNCHANGED <<disk, dfs, fig_scatter, fig_donut, layout, io, net>>

FigScatter ==
    /\ pc = "fig_scatter"
    /\ fig_scatter' = BuildScatter(df_scatter)
    /\ bound' = bound \cup { "fig_scatter" }
    /\ pc' = After(pc)
    /\ UNCHANGED <<disk, dfs, fig_bar_chart, fig_donut, layout, io, net>>

FigDonut ==
    /\ pc = "fig_donut"
    /\ fig_donut' = BuildDonut(df_donut)
    /\ bound' = bound \cup { "fig_donut" }
    /\ pc' = After(pc)
    /\ UNCHANGED <<disk, dfs, fig_bar_chart, fig_scatter, layout, io, net>>

\* app = dash.Dash(...); server = app.server; app.layout = html.Div(...)
AppLayout ==
    /\ pc = "layout"
    /\ layout' = ComposeLayout(fig_bar_chart, df_structural_top10, fig_scatter,
                               fig_donut, df_resource_top10)
    /\ bound' = bound \cup { "app", "server" }
    /\ pc' = After(pc)
    /\ UNCHANGED <<disk, dfs, figs, io, net>>

\* if __name__ == '__main__': app.run(debug=False)
AppRun ==
    /\ pc = "main"
    /\ pc' = After(pc)
    /\ UNCHANGED <<disk, bound, dfs, figs, layout, io, net>>

\* the server accepts a request of client c
Accept(c) ==
    /\ pc = "serving"
    /\ c \notin inflight
    /\ served + Cardinality(inflight) < MaxRequests
    /\ inflight' = inflight \cup { c }
    /\ UNCHANGED <<disk, pc, bound, dfs, figs, layout, io, response, served>>

\* the document a request for the page is answered with
ServeLayout == layout

\* Respond with a handler that drops the slide it has just served
RespondMutating(c) ==
    /\ pc = "serving"
    /\ c \in inflight
    /\ response' = [response EXCEPT ![c] = Append(@, ServeLayout)]
    /\ layout' = Tail(layout)
    /\ inflight' = inflight \ { c }
    /\ served' = served + 1
    /\ UNCHANGED <<disk, pc, bound, dfs, figs, io>>

\* the server answers the request of client c
Respond(c) ==
    /\ pc = "serving"
    /\ c \in inflight
    /\ response' = [response EXCEPT ![c] = Append(@, ServeLayout)]
    /\ inflight' = inflight \ { c }
    /\ served' = served + 1
    /\ UNCHANGED <<disk, pc, bound, dfs, figs, layout, io>>

Next ==
    \/ ReadBar \/ ReadStructural \/ ReadResource \/ ReadScatter \/ ReadDonut
    \/ FileNotFound
    \/ ParseFailure
    \/ FigBarChart \/ FigScatter \/ FigDonut
    \/ AppLayout
    \/ AppRun
    \/ \E c \in Clients : Accept(c)
    \/ \E c \in Clients : Respond(c)

Spec == Init /\ [][Next]_vars

-----------------------------------------------------------------------------
(* The claims.                                                             *)

Absent == { f \in Range(Files) : status[f] = "absent" }

LoadingPcs == { Program[i] : i \in 1..Len(Files) }
Figures == { "fig_bar_chart", "fig_scatter", "fig_donut" }

\* the first file, in reading order, that does not load; 0 when all load
FirstFailing ==
    IF \A i \in 1..Len(Files) : status[Files[i]] = "ok" THEN 0
    ELSE CHOOSE i \in 1..Len(Files) :
           /\ status[Files[i]] # "ok"
           /\ \A j \in 1..(i - 1) : status[Files[j]] = "ok"

\* some printed line holds the name of file f
Named(f) ==
    \E k \in 1..Len(stdout) : \E m \in 1..Len(stdout[k]) : stdout[k][m] = f

HintLine == << "Did you run the 'FINAL PREP' cell (Cell 23) first?" >>

\* C1: start-up runs loader, then figure builders, then layout, then server,
\* each stage only after the whole of the one before it; and when any
\* non-empty set of the five files is absent the process never leaves the
\* loading stage except by exiting: it can always take a further step until it
\* has exited, no figure is built, no layout is composed, the server never
\* serves and no client is answered.  The server serves only when all five
\* files were read.
C1_FailFastStartupOrder ==
    /\ (bound \cap Figures # {}) => Range(Target) \subseteq bound
    /\ "fig_scatter" \in bound => "fig_bar_chart" \in bound
    /\ "fig_donut" \in bound => "fig_scatter" \in bound
    /\ "app" \in bound => Figures \subseteq bound
    /\ layout # Unbound <=> "app" \in bound
    /\ pc = "serving" => "app" \in bound
    /\ (inflight # {} \/ served > 0) => pc = "serving"
    /\ pc = "serving" =>
          /\ \A f \in Range(Files) : status[f] = "ok"
          /\ dfs = << content.bar, content.structural, content.resource,
                      content.scatter, content.donut >>
    /\ Absent # {} =>
          /\ pc \in LoadingPcs \cup { "exited" }
          /\ pc # "exited" => ENABLED Next
          /\ bound \subseteq Range(Target)
          /\ figs = << Unbound, Unbound, Unbound >>
          /\ layout = Unbound
          /\ inflight = {} /\ served = 0
          /\ \A c \in Clients : response[c] = << >>

\* C1's case: the process has exited with two files absent, after it had read
\* at least one file.
C1_Witness ==
    /\ pc = "exited"
    /\ Cardinality(Absent) >= 2
    /\ bound # {}

\* C2 as stated: whenever a file is absent, start-up fails and the diagnostic
\* names that file.
C2_EveryAbsentFileNamed ==
    \A f \in Absent :
        /\ pc # "serving"
        /\ pc = "exited" => Named(f)

\* C2 as amended: a file that is absent while every file read before it loads
\* makes start-up fail with a diagnostic that names that file and no other
\* file; the files are read in the order bar, structural, resource, scatter,
\* donut, and the script stops at the first one that does not load.
C2_FirstAbsentFileNamed ==
    \A i \in 1..Len(Files) :
        ( /\ status[Files[i]] = "absent"
          /\ \A j \in 1..(i - 1) : status[Files[j]] = "ok" )
        => /\ pc \in { Program[j] : j \in 1..i } \cup { "exited" }
           /\ pc # "exited" => stdout = << >>
           /\ pc = "exited" =>
                 /\ Named(Files[i])
                 /\ \A g \in Range(Files) \ { Files[i] } : ~Named(g)

\* C2's case: the third file is absent, a later one too, and the process has
\* exited after naming the third.
C2_Witness ==
    /\ pc = "exited"
    /\ status[Files[1]] = "ok" /\ status[Files[2]] = "ok"
    /\ status[Files[3]] = "absent"
    /\ status[Files[5]] = "absent"
    /\ Named(Files[3])

\* C3: when an input file is absent the process exits with a status that
\* signals failure (non-zero).
C3_AbsentExitsNonZero ==
    (pc = "exited" /\ FirstFailing # 0 /\ status[Files[FirstFailing]] = "absent")
        => exit_code # << 0 >>

\* C4 as stated: a table that cannot be located and a table that cannot be
\* parsed are handled alike: the resource is named, the hint at the
\* preparation step is printed and the process exits.
C4_SameHandlingWhenUnparseable ==
    \A i \in 1..Len(Files) :
        (FirstFailing = i /\ pc \notin { Program[j] : j \in 1..i })
        => /\ pc = "exited"
           /\ Named(Files[i])
           /\ \E k \in 1..Len(stdout) : stdout[k] = HintLine

\* C4 as amended: the one handled error kind covers only a table that cannot
\* be located: for any of the five tables the three diagnostic lines (the
\* resource named, the hint printed) are printed and the process exits by
\* exit().  A table that exists but cannot be parsed is not handled: nothing
\* is printed by the handler, the exception ends the process unhandled.
C4_OnlyAbsenceIsHandled ==
    \A i \in 1..Len(Files) :
        (FirstFailing = i /\ pc \notin { Program[j] : j \in 1..i })
        => /\ pc = "exited"
           /\ status[Files[i]] = "absent" =>
                 /\ stdout = Diagnostic(Files[i])
                 /\ Named(Files[i])
                 /\ stdout[2] = HintLine
                 /\ traceback = "none"
                 /\ exit_code = << ExitStatus >>
           /\ status[Files[i]] = "unparseable" =>
                 /\ stdout = << >>
                 /\ traceback # "none"
                 /\ exit_code = << UnhandledStatus >>

\* C4's case: the process has ended at a file that exists but cannot be
\* parsed, after reading the files before it.
C4_Witness ==
    /\ pc = "exited"
    /\ FirstFailing = 4
    /\ status[Files[4]] = "unparseable"
    /\ traceback # "none"

\* the document the script builds from the files of the working directory
StartupDocument ==
    ComposeLayout(BuildBarChart(content.bar), content.structural,
                  BuildScatter(content.scatter), BuildDonut(content.donut),
                  content.resource)

\* C5: while the server serves, no step changes the five tables, the three
\* figures or the layout (the two table specifications are part of the
\* layout), whatever the interleaving of the clients' requests; a step that
\* answers a request hands out the layout; and every document any client ever
\* received is the one built at start-up.
C5_FrozenWhileServing ==
    /\ [][ pc = "serving" =>
             /\ UNCHANGED <<dfs, figs, layout>>
             /\ \A c \in Clients :
                   response'[c] # response[c]
                   => response'[c] = Append(response[c], layout) ]_vars
    /\ [](\A c \in Clients : \A n \in 1..Len(response[c]) :
             response[c][n] = StartupDocument /\ response[c][n] = layout)

\* C5's case: both clients have been answered, the second while the first
\* had already been served.
C5_Witness ==
    /\ pc = "serving"
    /\ served >= 2
    /\ \A c \in Clients : response[c] # << >>

\* the digit a character stands for
DigitValue(ch) == CHOOSE d \in 0..9 : DigitChars[d + 1] = ch

\* the number a sequence of digit characters writes
RECURSIVE DigitsValue(_)
DigitsValue(ds) ==
    IF ds = << >> THEN 0
    ELSE 10 * DigitsValue(SubSeq(ds, 1, Len(ds) - 1)) + DigitValue(ds[Len(ds)])

\* label writes a number with exactly one decimal, followed by '%', and that
\* number is h hundredths rounded to the nearest tenth
IsRoundedPercent(label, h) ==
    LET n == Len(label)
    IN  /\ n >= 4
        /\ label[n] = "%"
        /\ label[n - 2] = "."
        /\ \A k \in (1..(n - 3)) \cup { n - 1 } : label[k] \in Range(DigitChars)
        /\ (n > 4 => label[1] # "0")
        /\ LET tenths == 10 * DigitsValue(SubSeq(label, 1, n - 3))
                         + DigitValue(label[n - 1])
               diff   == 10 * tenths - h
           IN  diff \in (0 - 5)..5

Blue == "#1f77b4"
Orange == "#ff7f0e"
Gray == "#7f7f7f"
Red == "#d62728"

\* the colour the fixed table gives each of the four labels
FixedColor(c) ==
    CASE c = "1. Structural Failure"     -> Blue
      [] c = "2. Resource Failure"       -> Orange
      [] c = "3. Unexplained \"Chaos\""  -> Gray
      [] c = "4. General Infrastructure" -> Red

\* C6: for a DriverImportance table (one row per category) whose categories
\* are among the four fixed labels, the bar chart has exactly one bar per row,
\* in row order; each bar's height is the row's percentage, its label is that
\* percentage rounded to one decimal place followed by '%', its colour is the
\* one the fixed table gives its category; the legend is not shown.  The rows
\* 45.0, 34.4, 12.0, 8.6 for labels 1-4 give the labels '45.0%', '34.4%',
\* '12.0%', '8.6%' in that order, coloured blue, orange, gray, red.
C6_BarChart ==
    ( /\ "fig_bar_chart" \in bound
      /\ \A i \in 1..Len(df_bar) : df_bar[i].Problem \in Mapped )
    => LET bars == Bars(fig_bar_chart)
       IN  /\ Len(bars) = Len(df_bar)
           /\ \A i \in 1..Len(df_bar) :
                 /\ bars[i].x = df_bar[i].Problem
                 /\ bars[i].height = df_bar[i].Importance
                 /\ IsRoundedPercent(bars[i].label, df_bar[i].Importance)
                 /\ bars[i].color = FixedColor(df_bar[i].Problem)
           /\ fig_bar_chart.showlegend = FALSE
           /\ df_bar = ExampleBar =>
                 /\ [i \in 1..4 |-> bars[i].label]
                      = << << "4", "5", ".", "0", "%" >>,
                           << "3", "4", ".", "4", "%" >>,
                           << "1", "2", ".", "0", "%" >>,
                           << "8", ".", "6", "%" >> >>
                 /\ [i \in 1..4 |-> bars[i].color] = << Blue, Orange, Gray, Red >>

\* C6's case: the chart is built from two rows that are not in the order of
\* their labels, one with a percentage that rounds up into the next integer.
C6_Witness ==
    /\ "fig_bar_chart" \in bound
    /\ Len(df_bar) = 2
    /\ df_bar[1] = [ Problem |-> "4. General Infrastructure", Importance |-> 9996 ]
    /\ df_bar[2].Problem = "1. Structural Failure"
    /\ Len(Bars(fig_bar_chart)) = 2

\* the number of indices of s whose entry is v
Count(s, v) == Cardinality({ i \in 1..Len(s) : s[i] = v })

\* C7: the scatter plot has exactly one point per row of ScatterSample, at
\* exactly (ptr_2024, sqcr_2024) of the row, in exactly one of the two fixed
\* classes, the one its flag alone selects (1: 'Red Zone', 0: 'OK'); the two
\* reference lines are at x = 48.5 and y = 57.0 whatever the data.  The row
\* (50.0, 60.0, 1) is classed 'Red Zone' and lies strictly right of the
\* vertical line and strictly above the horizontal one.
C7_Scatter ==
    "fig_scatter" \in bound
    => LET points == Points(fig_scatter)
           Class(flag) == IF flag = 1 THEN "Red Zone (194k Schools)"
                          ELSE "OK (1.2M Schools)"
           PointOf(r) == [ x |-> r.ptr_2024, y |-> r.sqcr_2024,
                           class |-> Class(r.is_red_zone_2024) ]
       IN  /\ Len(points) = Len(df_scatter)
           /\ \A i \in 1..Len(df_scatter) :
                 Count(points, PointOf(df_scatter[i]))
                   = Count(df_scatter, df_scatter[i])
           /\ \A n \in 1..Len(points) :
                 points[n].class \in { "Red Zone (194k Schools)",
                                       "OK (1.2M Schools)" }
           /\ Len(fig_scatter.shapes) = 2
           /\ fig_scatter.shapes[1].type = "vline" /\ fig_scatter.shapes[1].at = 485
           /\ fig_scatter.shapes[2].type = "hline" /\ fig_scatter.shapes[2].at = 570
           /\ \A i \in 1..Len(df_scatter) :
                 df_scatter[i] = [ ptr_2024 |-> 500, sqcr_2024 |-> 600,
                                   is_red_zone_2024 |-> 1 ]
                 => \E n \in 1..Len(points) :
                       /\ points[n].class = "Red Zone (194k Schools)"
                       /\ points[n].x = 500 /\ points[n].y = 600
                       /\ points[n].x > fig_scatter.shapes[1].at
                       /\ points[n].y > fig_scatter.shapes[2].at

\* C7's case: the plot is built from an 'OK' row followed by a flagged row
\* that lies left of the vertical line, and from the row (50.0, 60.0, 1).
C7_Witness ==
    /\ "fig_scatter" \in bound
    /\ Len(df_scatter) = 2
    /\ df_scatter[1].is_red_zone_2024 = 0
    /\ df_scatter[2] = [ ptr_2024 |-> 480, sqcr_2024 |-> 600,
                         is_red_zone_2024 |-> 1 ]
    /\ Len(Points(fig_scatter)) = 2

Permute(s, q) == [i \in 1..Len(s) |-> s[q[i]]]

\* the table with its rows, or its columns, rearranged
PermuteRows(df, q) == [ df EXCEPT !.rows = Permute(df.rows, q) ]
PermuteColumns(df, q) ==
    [ columns |-> Permute(df.columns, q),
      rows    |-> [i \in 1..Len(df.rows) |-> Permute(df.rows[i], q)] ]

\* the grid built from df keeps df's order, and follows every rearrangement
GridFollows(df, grid) ==
    /\ GridHeaders(grid) = df.columns
    /\ GridCells(grid) = df.rows
    /\ Len(grid.data) = Len(df.rows)
    /\ Len(grid.columns) = Len(df.columns)
    /\ DataTable(df).data = grid.data /\ DataTable(df).columns = grid.columns
    /\ \A q \in Permutations(1..Len(df.rows)) :
          /\ GridCells(DataTable(PermuteRows(df, q))) = Permute(GridCells(grid), q)
          /\ GridHeaders(DataTable(PermuteRows(df, q))) = GridHeaders(grid)
    /\ \A q \in Permutations(1..Len(df.columns)) :
          /\ GridHeaders(DataTable(PermuteColumns(df, q)))
               = Permute(GridHeaders(grid), q)
          /\ GridCells(DataTable(PermuteColumns(df, q)))
               = [i \in 1..Len(df.rows) |-> Permute(GridCells(grid)[i], q)]

\* C9: for both top-10 tables the grid's rows are the source rows in source
\* order and its headers the source columns in source order, nothing
\* re-sorted, dropped or duplicated; rearranging the source's rows or columns
\* rearranges the grid identically; building again from the same table gives
\* the grid of the layout.
C9_TablesKeepOrder ==
    "app" \in bound
    => /\ GridFollows(df_structural_top10, layout[3].table)
       /\ GridFollows(df_resource_top10, layout[4].table)

\* C9's case: the layout holds the grid of a two-row, two-column structural
\* table whose columns are not in alphabetical order and whose rows differ.
C9_Witness ==
    /\ "app" \in bound
    /\ df_structural_top10.columns = << "Schools", "District" >>
    /\ df_structural_top10.rows = << << "b", "a" >>, << "a", "a" >> >>
    /\ Len(layout[3].table.data) = 2

\* df_bar has a row whose category is not one of the four labels
HasUnmapped == \E i \in 1..Len(df_bar) : df_bar[i].Problem \notin Mapped

\* C10 as stated: a row whose category is not in the fixed table makes figure
\* construction fail, so the server never serves a chart with a bar coloured
\* outside the fixed four colours.
C10_UnmappedCategoryNeverServed ==
    pc = "serving"
    => \A n \in 1..Len(Bars(fig_bar_chart)) :
          Bars(fig_bar_chart)[n].color \in { Blue, Orange, Gray, Red }

\* C10 as amended: a row whose category is not in the fixed table does not
\* make figure construction fail; its bar is silently given a colour of the
\* plotting library's default colour sequence, which is none of the fixed
\* four, the bars of the four labels keep their fixed colours, and start-up
\* goes on to serve the chart.
C10_UnmappedCategoryGetsDefaultColor ==
    ("fig_bar_chart" \in bound /\ HasUnmapped)
    => /\ traceback = "none" /\ exit_code = << >>
       /\ pc \in { "fig_scatter", "fig_donut", "layout", "main", "serving" }
       /\ pc # "serving" => ENABLED Next
       /\ Len(Bars(fig_bar_chart)) = Len(df_bar)
       /\ \A n \in 1..Len(Bars(fig_bar_chart)) :
             LET b == Bars(fig_bar_chart)[n]
             IN  IF b.x \in Mapped
                 THEN b.color = FixedColor(b.x)
                 ELSE /\ b.color \in Range(color_discrete_sequence)
                      /\ b.color \notin { Blue, Orange, Gray, Red }

\* C10's case: the server has answered a request with a chart that holds a
\* bar of a category outside the four labels.
C10_Witness ==
    /\ pc = "serving"
    /\ HasUnmapped
    /\ served >= 1
    /\ \E n \in 1..Len(Bars(fig_bar_chart)) :
          Bars(fig_bar_chart)[n].color \notin { Blue, Orange, Gray, Red }

=============================================================================
